---- MODULE Spec2Model ----
(***************************************************************************)
(* Model of the Xero multi-tenant credential layer:                        *)
(*   - the token store (InMemoryTokenStore / EncryptedFileTokenStore),     *)
(*     its chained flush to disk and its load at construction              *)
(*     (src/xero/token-store.ts);                                          *)
(*   - the refresh coordinator and OAuth token request                     *)
(*     (src/xero/auth.ts, BEN-44 revision: getValidAccessToken, doRefresh, *)
(*     tokenRequest, storeToken).                                          *)
(* One JavaScript event loop: every action is the synchronous run of a     *)
(* handler or of a continuation between two awaits.                        *)
(***************************************************************************)
EXTENDS Integers, Sequences, FiniteSets, TLC

(***************************************************************************)
(* Bounds of the model.                                                    *)
(***************************************************************************)
MaxCallers == 2
MaxFetchCalls == 2
MaxNow == 1
MaxQueuedFlushes == 1
MaxNonce == 1

(***************************************************************************)
(* Program constants.                                                      *)
(***************************************************************************)
REFRESH_TOKEN_BUFFER_MS == 60 * 1000
MsPerSecond == 1000
EnvelopeVersion == 1
PayloadVersion == 1
KeyBytes == 32

(***************************************************************************)
(* Inputs.                                                                 *)
(***************************************************************************)
TenantIds == {"", "t1", "t2"}
Nonces == 1..MaxNonce
\* process.env.XERO_TOKEN_ENCRYPTION_KEY: unset, or a valid 32-byte key.
NoKey == "<unset>"
EnvKeys == {NoKey, "K1"}

Undefined == [undefined |-> TRUE]

XeroTokenSet(tenantId, accessToken, refreshToken, expiresAt) ==
    [tenantId |-> tenantId, accessToken |-> accessToken,
     refreshToken |-> refreshToken, expiresAt |-> expiresAt]

(***************************************************************************)
(* JavaScript Map<string, XeroTokenSet>: insertion-ordered entries.        *)
(***************************************************************************)
MapKeys(m) == [i \in 1..Len(m) |-> m[i].key]

MapHas(m, k) == \E i \in 1..Len(m) : m[i].key = k

MapGet(m, k) ==
    IF MapHas(m, k)
    THEN m[CHOOSE i \in 1..Len(m) : m[i].key = k /\ \A j \in 1..(i-1) : m[j].key # k].value
    ELSE Undefined

MapSet(m, k, v) ==
    IF MapHas(m, k)
    THEN [i \in 1..Len(m) |-> IF m[i].key = k THEN [key |-> k, value |-> v] ELSE m[i]]
    ELSE Append(m, [key |-> k, value |-> v])

MapDelete(m, k) == SelectSeq(m, LAMBDA e : e.key # k)

(***************************************************************************)
(* Text encodings.  A JSON text is a tagged tuple of its fields in the     *)
(* order JSON.stringify emits them; a base64 string is a tagged wrapper.   *)
(***************************************************************************)
ToBase64(bytes) == <<"b64", bytes>>

FromBase64(str) == str[2]

\* JSON.stringify({version, updatedAt, tokens: Object.fromEntries(map.entries())})
StringifyPayload(version, updatedAt, m) ==
    <<"payload", version, updatedAt,
      [i \in 1..Len(m) |->
          <<m[i].key, <<m[i].value.tenantId, m[i].value.accessToken,
                        m[i].value.refreshToken, m[i].value.expiresAt>> >>] >>

\* A JSON text of an object that is not of the PersistedPayloadV1 type: its
\* updatedAt may be of another type than number, its tokens may be missing.
LoosePayloadText(version, updatedAtType, tokensPresent) ==
    <<"object", [version |-> version, updatedAtType |-> updatedAtType,
                 tokensPresent |-> tokensPresent]>>

\* JSON.parse(plaintext) as PersistedPayloadV1
ParsePayload(text) ==
    IF text[1] = "payload"
    THEN [json |-> TRUE, version |-> text[2],
          updatedAtType |-> "number", updatedAt |-> text[3],
          tokensPresent |-> TRUE,
          tokens |-> [i \in 1..Len(text[4]) |->
                         [key |-> text[4][i][1],
                          value |-> XeroTokenSet(text[4][i][2][1], text[4][i][2][2],
                                                 text[4][i][2][3], text[4][i][2][4])]]]
    ELSE IF text[1] = "object"
    THEN [json |-> TRUE, version |-> text[2].version,
          updatedAtType |-> text[2].updatedAtType, updatedAt |-> Undefined,
          tokensPresent |-> text[2].tokensPresent, tokens |-> <<>>]
    ELSE [json |-> FALSE]

\* JSON.stringify(envelope)
StringifyEnvelope(envelope) ==
    <<"envelope", envelope.version, envelope.alg, envelope.iv, envelope.tag, envelope.data>>

\* JSON.parse(raw) as EncryptedEnvelopeV1
ParseEnvelope(text) ==
    IF text[1] = "envelope"
    THEN [json |-> TRUE, version |-> text[2], alg |-> text[3],
          iv |-> text[4], tag |-> text[5], data |-> text[6]]
    ELSE [json |-> FALSE]

(***************************************************************************)
(* AES-256-GCM, symbolically: the ciphertext and the tag are terms over    *)
(* the key, the nonce and the plaintext; the tag verifies only under the   *)
(* key and nonce that produced the ciphertext.                             *)
(***************************************************************************)
encryptAes256Gcm(key, plaintext, iv) ==
    [iv |-> iv,
     tag |-> <<"gcm-tag", key, iv, plaintext>>,
     data |-> <<"gcm-ct", key, iv, plaintext>>]

\* Mutation: the tag is not verified.
decryptAes256GcmUnauthenticated(key, iv, tag, data) ==
    [ok |-> TRUE, plaintext |-> data[4]]

decryptAes256Gcm(key, iv, tag, data) ==
    IF data[2] = key /\ data[3] = iv /\ tag = <<"gcm-tag", key, iv, data[4]>>
    THEN [ok |-> TRUE, plaintext |-> data[4]]
    ELSE [ok |-> FALSE]

(***************************************************************************)
(* The file system: the file at the store path and the temporary file of   *)
(* the flush in progress.                                                  *)
(***************************************************************************)
AbsentFile == [kind |-> "absent"]

TextFile(text) == [kind |-> "text", text |-> text]

\* raw.trim(): a text of nothing but whitespace becomes the empty string.
Trim(text) == IF text[1] = "whitespace" THEN <<"empty">> ELSE text

\* Mutation: the ciphertext field carries the payload itself.
BuildEnvelopeInClear(key, m, updatedAt, iv) ==
    LET plaintext == StringifyPayload(PayloadVersion, updatedAt, m)
        enc == encryptAes256Gcm(key, plaintext, iv)
    IN  [version |-> EnvelopeVersion, alg |-> "aes-256-gcm",
         iv |-> ToBase64(enc.iv), tag |-> ToBase64(enc.tag), data |-> ToBase64(plaintext)]

\* Mutation: only the entry set last is serialised.
BuildEnvelopeLastEntryOnly(key, m, updatedAt, iv) ==
    LET plaintext == StringifyPayload(PayloadVersion, updatedAt, IF m = <<>> THEN m ELSE <<m[Len(m)]>>)
        enc == encryptAes256Gcm(key, plaintext, iv)
    IN  [version |-> EnvelopeVersion, alg |-> "aes-256-gcm",
         iv |-> ToBase64(enc.iv), tag |-> ToBase64(enc.tag), data |-> ToBase64(enc.data)]

\* The envelope a flush writes: the whole map, encrypted under a fresh nonce.
BuildEnvelope(key, m, updatedAt, iv) ==
    LET plaintext == StringifyPayload(PayloadVersion, updatedAt, m)
        enc == encryptAes256Gcm(key, plaintext, iv)
    IN  [version |-> EnvelopeVersion, alg |-> "aes-256-gcm",
         iv |-> ToBase64(enc.iv), tag |-> ToBase64(enc.tag), data |-> ToBase64(enc.data)]

\* Object.entries(payload.tokens).forEach(... this.map.set(tenantId, token))
RECURSIVE LoadEntries(_, _)
LoadEntries(entries, m) ==
    IF entries = <<>> THEN m
    ELSE LET e == Head(entries)
         IN  LoadEntries(Tail(entries),
                         IF e.key # "" /\ e.value.tenantId = e.key
                         THEN MapSet(m, e.key, e.value)
                         ELSE m)

\* The errors of construction.
JsonSyntaxError == "SyntaxError"

EnvelopeFormatError == "Unsupported token store envelope format"

AuthenticationError == "Unsupported state or unable to authenticate data"

PayloadError == "Invalid token store payload"

KeyLengthError == "XERO_TOKEN_ENCRYPTION_KEY must be a base64-encoded 32-byte key (AES-256-GCM)."

\* Mutation: an envelope that does not decrypt is taken for no state at all.
loadFromDiskIfPresentLenient(f, key) ==
    IF f.kind = "absent" THEN [ok |-> TRUE, map |-> <<>>]
    ELSE LET raw == Trim(f.text) IN
    IF raw[1] = "empty" THEN [ok |-> TRUE, map |-> <<>>]
    ELSE LET envelope == ParseEnvelope(raw) IN
    IF ~envelope.json THEN [ok |-> FALSE, error |-> JsonSyntaxError]
    ELSE IF envelope.version # EnvelopeVersion \/ envelope.alg # "aes-256-gcm"
    THEN [ok |-> FALSE, error |-> EnvelopeFormatError]
    ELSE LET dec == decryptAes256Gcm(key, FromBase64(envelope.iv),
                                     FromBase64(envelope.tag), FromBase64(envelope.data)) IN
    IF ~dec.ok THEN [ok |-> TRUE, map |-> <<>>]
    ELSE LET payload == ParsePayload(dec.plaintext) IN
    IF ~payload.json THEN [ok |-> FALSE, error |-> JsonSyntaxError]
    ELSE IF payload.version # PayloadVersion \/ payload.updatedAtType # "number"
    THEN [ok |-> FALSE, error |-> PayloadError]
    ELSE [ok |-> TRUE,
          map |-> LoadEntries(IF payload.tokensPresent THEN payload.tokens ELSE <<>>, <<>>)]

\* EncryptedFileTokenStore.loadFromDiskIfPresent: the map after construction,
\* or the error construction throws.
loadFromDiskIfPresent(f, key) ==
    IF f.kind = "absent" THEN [ok |-> TRUE, map |-> <<>>]
    ELSE LET raw == Trim(f.text) IN
    IF raw[1] = "empty" THEN [ok |-> TRUE, map |-> <<>>]
    ELSE LET envelope == ParseEnvelope(raw) IN
    IF ~envelope.json THEN [ok |-> FALSE, error |-> JsonSyntaxError]
    ELSE IF envelope.version # EnvelopeVersion \/ envelope.alg # "aes-256-gcm"
    THEN [ok |-> FALSE, error |-> EnvelopeFormatError]
    ELSE LET dec == decryptAes256Gcm(key, FromBase64(envelope.iv),
                                     FromBase64(envelope.tag), FromBase64(envelope.data)) IN
    IF ~dec.ok THEN [ok |-> FALSE, error |-> AuthenticationError]
    ELSE LET payload == ParsePayload(dec.plaintext) IN
    IF ~payload.json THEN [ok |-> FALSE, error |-> JsonSyntaxError]
    ELSE IF payload.version # PayloadVersion \/ payload.updatedAtType # "number"
    THEN [ok |-> FALSE, error |-> PayloadError]
    ELSE [ok |-> TRUE,
          map |-> LoadEntries(IF payload.tokensPresent THEN payload.tokens ELSE <<>>, <<>>)]

\* The encryption keys of the environment: unset, the empty string, two keys
\* of 32 bytes, one of 16 and one of 33.
LoadEnvKeys == {NoKey, "", "K1", "K2", "K16", "K33"}

\* Buffer.from(value, "base64").length
Base64DecodedLength(value) ==
    CASE value \in {"K1", "K2"} -> 32
      [] value = "K16" -> 16
      [] value = "K33" -> 33
      [] OTHER -> 0

\* parseEncryptionKeyBase64
parseEncryptionKeyBase64(value) ==
    IF Base64DecodedLength(value) # KeyBytes
    THEN [ok |-> FALSE, error |-> KeyLengthError]
    ELSE [ok |-> TRUE, key |-> value]

(***************************************************************************)
(* The token endpoint.  A JSON value is a tagged record; a response is     *)
(* what fetch() settles with.                                              *)
(***************************************************************************)
JString(str) == [type |-> "string", str |-> str]

JNumber(num) == [type |-> "number", num |-> num, int |-> TRUE]

\* A number with a fractional part, between num and num + 1.
JFraction(num) == [type |-> "number", num |-> num, int |-> FALSE]

JMissing == [type |-> "undefined"]

JsonBody(access_token, refresh_token, expires_in) ==
    [json |-> TRUE, access_token |-> access_token,
     refresh_token |-> refresh_token, expires_in |-> expires_in]

HttpResponse(status, body) ==
    [net |-> "ok", ok |-> (status >= 200 /\ status <= 299), status |-> status, body |-> body]

NetworkError == [net |-> "error"]

ValidResponses ==
    { HttpResponse(200, JsonBody(JString("A2"), JString("R2"), JNumber(1800))),
      HttpResponse(200, JsonBody(JString("A3"), JString("R3"), JNumber(60))) }

InvalidResponses ==
    { NetworkError,
      HttpResponse(400, [json |-> FALSE]),
      HttpResponse(200, [json |-> FALSE]),
      HttpResponse(200, JsonBody(JString(""), JString("R2"), JNumber(1800))),
      HttpResponse(200, JsonBody(JString("A2"), JMissing, JNumber(1800))),
      HttpResponse(200, JsonBody(JString("A2"), JString("R2"), JNumber(0))),
      HttpResponse(200, JsonBody(JString("A2"), JString("R2"), JFraction(1800))) }

Responses == ValidResponses \cup InvalidResponses

\* Mutation: the schema checks the types only.
tokenResponseSchemaTypesOnly(json) ==
    /\ json.access_token.type = "string"
    /\ json.refresh_token.type = "string"
    /\ json.expires_in.type = "number"

\* tokenResponseSchema.safeParse(json).success
tokenResponseSchema(json) ==
    /\ json.access_token.type = "string" /\ json.access_token.str # ""
    /\ json.refresh_token.type = "string" /\ json.refresh_token.str # ""
    /\ json.expires_in.type = "number" /\ json.expires_in.int /\ json.expires_in.num > 0

\* tokenRequest, from the settling of fetch() on: the parsed data or the error thrown.
tokenRequest(res) ==
    IF res.net = "error" THEN [ok |-> FALSE, error |-> "fetch failed"]
    ELSE IF ~res.ok THEN [ok |-> FALSE, error |-> "Xero token request failed"]
    ELSE IF ~res.body.json THEN [ok |-> FALSE, error |-> "Xero token response was not valid JSON"]
    ELSE IF ~tokenResponseSchema(res.body)
    THEN [ok |-> FALSE, error |-> "Xero token response did not match expected shape"]
    ELSE [ok |-> TRUE, access_token |-> res.body.access_token.str,
          refresh_token |-> res.body.refresh_token.str,
          expires_in |-> res.body.expires_in.num]

(***************************************************************************)
(* State.                                                                  *)
(***************************************************************************)
VARIABLES
    key,              \* process.env.XERO_TOKEN_ENCRYPTION_KEY as decoded, or NoKey
    map,              \* tokenStore.map
    flushChain,       \* tokenStore.flushChain: the flushes that have not settled, oldest first
    lastFlushError,   \* tokenStore.lastFlushError
    file,             \* the file at the store path
    tmpFile,          \* the temporary file of the running flush
    refreshInFlight,  \* tenantId -> index of the in-flight refresh promise, 0 if none
    refreshes,        \* the refresh promises something still refers to
    fetchCalls,       \* number of requests sent to the token endpoint
    calls,            \* per refresh promise and tenant, the number of calls awaiting it
    exchanges,        \* per tenant, the exchangeCodeForTokenAndStore calls awaiting the endpoint
    lastResult,       \* what the latest step handed to a caller, if it settled a call
    now               \* Date.now()

vars == <<key, map, flushChain, lastFlushError, file, tmpFile,
          refreshInFlight, refreshes, fetchCalls, calls, exchanges, lastResult, now>>

storeVars == <<map, flushChain>>

diskVars == <<file, tmpFile, lastFlushError>>

authVars == <<refreshInFlight, refreshes, fetchCalls, calls, exchanges>>

\* flushChain = Promise.resolve(): nothing to flush.
NoFlushes == <<>>

\* A flush chained by queueFlushToDisk that has not started.
QueuedFlush == [stage |-> "queued", envelope |-> Undefined]

\* Refresh promises live in slots; a promise nothing refers to any more (it
\* has settled and no call awaits it) leaves its slot free.  A promise is
\* awaited by at least one call, so one slot per suspended call is enough.
PromiseSlots == 1..MaxCallers

FreeSlot ==
    [tenantId |-> "", state |-> "free", request |-> Undefined,
     value |-> Undefined, error |-> ""]

NoRefreshes == [p \in PromiseSlots |-> FreeSlot]

\* Calls have no identity of their own: a suspended call is known by its
\* tenantId argument and the promise it awaits, and `calls` counts them.
NoCalls == [p \in PromiseSlots |-> [t \in TenantIds |-> 0]]

RECURSIVE SumOver(_, _)
SumOver(f, S) ==
    IF S = {} THEN 0
    ELSE LET x == CHOOSE y \in S : TRUE IN f[x] + SumOver(f, S \ {x})

\* The number of calls awaiting promise p, and of all suspended calls.
Awaiting(p) == SumOver(calls[p], TenantIds)

NoExchanges == [t \in TenantIds |-> 0]

SuspendedCalls ==
    SumOver([p \in PromiseSlots |-> Awaiting(p)], PromiseSlots) + SumOver(exchanges, TenantIds)

AwaitingCall(c, tenantId, p) == [c EXCEPT ![p][tenantId] = @ + 1]

\* Mutation: a call that resumes stays among the calls awaiting the promise.
ResumedCallStillWaiting(c, tenantId, p) == c

ResumedCall(c, tenantId, p) == [c EXCEPT ![p][tenantId] = @ - 1]

NoResult == [outcome |-> "none"]

\* A call for `tenantId` resolved with an access token.
Returned(tenantId, accessToken) ==
    [outcome |-> "returned", tenantId |-> tenantId, value |-> accessToken]

\* A call for `tenantId` rejected with an error.
Threw(tenantId, error) ==
    [outcome |-> "threw", tenantId |-> tenantId, value |-> error]

\* createTokenStoreFromEnv: the variant follows from the presence of the key.
\* Mutation: the empty string counts as a key.
IsFileStoreWheneverDefined == key # NoKey

IsFileStore == key \notin {NoKey, ""}

Init ==
    /\ key \in EnvKeys
    /\ map = <<>>
    /\ flushChain = NoFlushes
    /\ lastFlushError = "none"
    /\ file = AbsentFile
    /\ tmpFile = AbsentFile
    /\ refreshInFlight = [t \in TenantIds |-> 0]
    /\ refreshes = NoRefreshes
    /\ fetchCalls = 0
    /\ calls = NoCalls
    /\ exchanges = NoExchanges
    /\ lastResult = NoResult
    /\ now = 0

(***************************************************************************)
(* Token store operations (both variants).                                 *)
(***************************************************************************)
\* Mutation: no flush is chained while another one is still unsettled.
queueFlushToDiskUnlessPending(chain) ==
    IF chain # <<>> THEN chain ELSE Append(chain, QueuedFlush)

\* queueFlushToDisk: chain one more flushToDiskOnce after the prior ones.
queueFlushToDisk(chain) == Append(chain, QueuedFlush)

\* The model caps the number of flushes waiting in the chain.
CanQueueFlush ==
    \/ ~IsFileStore
    \/ Cardinality({i \in 1..Len(flushChain) : flushChain[i].stage = "queued"})
          < MaxQueuedFlushes

\* Mutation: set merges into the prior value, the old refresh token survives.
TokenStoreSetMerging(token) ==
    /\ map' = MapSet(map, token.tenantId,
                     IF MapHas(map, token.tenantId)
                     THEN [token EXCEPT !.refreshToken =
                              MapGet(map, token.tenantId).refreshToken]
                     ELSE token)
    /\ flushChain' = IF IsFileStore THEN queueFlushToDisk(flushChain) ELSE flushChain

\* Mutation: set updates the map and queues no flush.
TokenStoreSetWithoutFlush(token) ==
    /\ map' = MapSet(map, token.tenantId, token)
    /\ flushChain' = flushChain

\* TokenStore.set(token)
TokenStoreSet(token) ==
    /\ map' = MapSet(map, token.tenantId, token)
    /\ flushChain' = IF IsFileStore THEN queueFlushToDisk(flushChain) ELSE flushChain

\* Mutation: deleting one tenant clears the whole map.
TokenStoreDeleteAll(tenantId) ==
    /\ map' = <<>>
    /\ flushChain' = IF IsFileStore THEN queueFlushToDisk(flushChain) ELSE flushChain

\* TokenStore.delete(tenantId)
TokenStoreDelete(tenantId) ==
    /\ map' = MapDelete(map, tenantId)
    /\ flushChain' = IF IsFileStore THEN queueFlushToDisk(flushChain) ELSE flushChain

\* Mutation: an unknown tenant falls back to the first token on record.
TokenStoreGetFallback(tenantId) ==
    IF MapHas(map, tenantId) THEN MapGet(map, tenantId)
    ELSE IF map # <<>> THEN map[1].value ELSE Undefined

\* TokenStore.get / has / listTenantIds
TokenStoreGet(tenantId) == MapGet(map, tenantId)

TokenStoreHas(tenantId) == MapHas(map, tenantId)

TokenStoreListTenantIds == MapKeys(map)

(***************************************************************************)
(* flushToDiskOnce, one action per await.  A flush leaves the chain when   *)
(* it settles.                                                             *)
(***************************************************************************)
\* Mutation: the flush is started without waiting for the chain.
PriorFlushesSettledOrNot(chain, i) == TRUE

\* flushChain.then(...): the callback runs once the promise it was chained
\* to has settled, that is, once every older flush has left the chain.
PriorFlushesSettled(chain, i) == i = 1

\* The chain without its i-th flush.
FlushSettled(chain, i) == SubSeq(chain, 1, i - 1) \o SubSeq(chain, i + 1, Len(chain))

\* The i-th flush of the chain starts: snapshot, encrypt, await mkdir.
FlushStart(i) ==
    /\ IsFileStore
    /\ i \in 1..Len(flushChain)
    /\ flushChain[i].stage = "queued"
    /\ PriorFlushesSettled(flushChain, i)
    /\ \E iv \in Nonces :
         flushChain' = [flushChain EXCEPT ![i] =
                           [stage |-> "mkdir", envelope |-> BuildEnvelope(key, map, now, iv)]]
    /\ UNCHANGED <<key, map, lastFlushError, file, tmpFile, authVars, now>>
    /\ lastResult' = NoResult

\* Mutation: the catch swallows the error.
FlushFailsUnrecorded(i, err) ==
    /\ lastFlushError' = lastFlushError
    /\ flushChain' = FlushSettled(flushChain, i)

\* Mutation: a failure rejects the whole chain, the flushes behind never run.
FlushFailsBreakingChain(i, err) ==
    /\ lastFlushError' = err
    /\ flushChain' = NoFlushes

\* The catch of queueFlushToDisk: record the error, the chain goes on.
FlushFails(i, err) ==
    /\ lastFlushError' = err
    /\ flushChain' = FlushSettled(flushChain, i)

\* Mutation: writeFile is pointed at the store path itself.
FlushMkdirInPlace(i) ==
    /\ i \in 1..Len(flushChain)
    /\ flushChain[i].stage = "mkdir"
    /\ \/ /\ flushChain' = [flushChain EXCEPT ![i].stage = "write"]
          /\ file' = TextFile(<<"partial">>)
          /\ UNCHANGED <<lastFlushError, tmpFile>>
       \/ /\ FlushFails(i, "mkdir failed")
          /\ UNCHANGED <<file, tmpFile>>
    /\ UNCHANGED <<key, map, authVars, now>>
    /\ lastResult' = NoResult

\* mkdir settles; on success writeFile starts creating the temporary file.
FlushMkdir(i) ==
    /\ i \in 1..Len(flushChain)
    /\ flushChain[i].stage = "mkdir"
    /\ \/ /\ flushChain' = [flushChain EXCEPT ![i].stage = "write"]
          /\ tmpFile' = TextFile(<<"partial">>)
          /\ UNCHANGED lastFlushError
       \/ /\ FlushFails(i, "mkdir failed")
          /\ UNCHANGED tmpFile
    /\ UNCHANGED <<key, map, file, authVars, now>>
    /\ lastResult' = NoResult

\* Mutation: writeFile reports success on a truncated temporary file.
FlushWriteTruncated(i) ==
    /\ i \in 1..Len(flushChain)
    /\ flushChain[i].stage = "write"
    /\ \/ /\ flushChain' = [flushChain EXCEPT ![i].stage = "rename"]
          /\ UNCHANGED <<tmpFile, lastFlushError>>
       \/ /\ FlushFails(i, "writeFile failed")
          /\ UNCHANGED tmpFile
    /\ UNCHANGED <<key, map, file, authVars, now>>
    /\ lastResult' = NoResult

\* writeFile settles; on success the temporary file is complete and rename starts.
FlushWrite(i) ==
    /\ i \in 1..Len(flushChain)
    /\ flushChain[i].stage = "write"
    /\ \/ /\ flushChain' = [flushChain EXCEPT ![i].stage = "rename"]
          /\ tmpFile' = TextFile(StringifyEnvelope(flushChain[i].envelope))
          /\ UNCHANGED lastFlushError
       \/ /\ FlushFails(i, "writeFile failed")
          /\ UNCHANGED tmpFile
    /\ UNCHANGED <<key, map, file, authVars, now>>
    /\ lastResult' = NoResult

\* rename settles; on success the temporary file replaces the file at the store path.
FlushRename(i) ==
    /\ i \in 1..Len(flushChain)
    /\ flushChain[i].stage = "rename"
    /\ \/ /\ file' = tmpFile
          /\ tmpFile' = AbsentFile
          /\ flushChain' = FlushSettled(flushChain, i)
          /\ UNCHANGED lastFlushError
       \/ /\ FlushFails(i, "rename failed")
          /\ UNCHANGED <<file, tmpFile>>
    /\ UNCHANGED <<key, map, authVars, now>>
    /\ lastResult' = NoResult

(***************************************************************************)
(* Process restart: the module is loaded again, createTokenStoreFromEnv    *)
(* constructs a fresh store from the same path and key; everything held    *)
(* in memory by the old process is gone.                                   *)
(***************************************************************************)

\* Mutation: the key is validated after the file has been loaded with it.
createTokenStoreFromEnvLoadFirst(k, f) ==
    IF k \in {NoKey, ""} THEN [ok |-> TRUE, map |-> <<>>]
    ELSE LET loaded == loadFromDiskIfPresent(f, k)
             parsed == parseEncryptionKeyBase64(k)
         IN  IF ~loaded.ok THEN loaded
             ELSE IF ~parsed.ok THEN [ok |-> FALSE, error |-> parsed.error]
             ELSE loaded

createTokenStoreFromEnv(k, f) ==
    IF k \in {NoKey, ""} THEN [ok |-> TRUE, map |-> <<>>]
    ELSE LET parsed == parseEncryptionKeyBase64(k)
         IN  IF ~parsed.ok THEN [ok |-> FALSE, error |-> parsed.error]
             ELSE loadFromDiskIfPresent(f, parsed.key)

\* Mutation: the fresh store does not load the file.
RestartEmpty ==
    /\ createTokenStoreFromEnv(key, file).ok
    /\ map' = <<>>
    /\ flushChain' = NoFlushes
    /\ lastFlushError' = "none"
    /\ refreshInFlight' = [t \in TenantIds |-> 0]
    /\ refreshes' = NoRefreshes
    /\ calls' = NoCalls
    /\ exchanges' = NoExchanges
    /\ lastResult' = NoResult
    /\ UNCHANGED <<key, file, tmpFile, fetchCalls, now>>

Restart ==
    /\ createTokenStoreFromEnv(key, file).ok
    /\ map' = createTokenStoreFromEnv(key, file).map
    /\ flushChain' = NoFlushes
    /\ lastFlushError' = "none"
    /\ refreshInFlight' = [t \in TenantIds |-> 0]
    /\ refreshes' = NoRefreshes
    /\ calls' = NoCalls
    /\ exchanges' = NoExchanges
    /\ lastResult' = NoResult
    /\ UNCHANGED <<key, file, tmpFile, fetchCalls, now>>

\* The process starts and construction throws: there is no store.
RestartFails ==
    /\ ~createTokenStoreFromEnv(key, file).ok
    /\ map' = <<>>
    /\ flushChain' = NoFlushes
    /\ lastFlushError' = "none"
    /\ refreshInFlight' = [t \in TenantIds |-> 0]
    /\ refreshes' = NoRefreshes
    /\ calls' = NoCalls
    /\ exchanges' = NoExchanges
    /\ lastResult' = Threw("", createTokenStoreFromEnv(key, file).error)
    /\ UNCHANGED <<key, file, tmpFile, fetchCalls, now>>

(***************************************************************************)
(* auth.ts                                                                 *)
(***************************************************************************)
\* The token sets an operator stores: for the given tenants, with the given
\* credentials and expiry times.
InputTokens(tenantIds, credentials, expiries) ==
    { XeroTokenSet(t, a[1], a[2], e) :
        t \in tenantIds, a \in credentials, e \in expiries }

\* Mutation: the token is stored under a fixed key, whatever its tenantId.
storeTokenUnderFixedKey(token) ==
    /\ CanQueueFlush
    /\ map' = MapSet(map, "t2", token)
    /\ flushChain' = IF IsFileStore THEN queueFlushToDisk(flushChain) ELSE flushChain
    /\ UNCHANGED <<key, diskVars, authVars, now>>
    /\ lastResult' = NoResult

\* storeToken(token)
storeToken(token) ==
    /\ CanQueueFlush
    /\ TokenStoreSet(token)
    /\ UNCHANGED <<key, diskVars, authVars, now>>
    /\ lastResult' = NoResult

\* tokenStore.delete(tenantId), the store's offboarding operation
deleteToken(tenantId) ==
    /\ CanQueueFlush
    /\ TokenStoreDelete(tenantId)
    /\ UNCHANGED <<key, diskVars, authVars, now>>
    /\ lastResult' = NoResult

\* Mutation: > instead of >=.
NeedsRefreshStrict(nowMs, token) == nowMs > token.expiresAt - REFRESH_TOKEN_BUFFER_MS

\* Date.now() >= token.expiresAt - REFRESH_TOKEN_BUFFER_MS
NeedsRefresh(nowMs, token) == nowMs >= token.expiresAt - REFRESH_TOKEN_BUFFER_MS

\* Mutation: no de-duplication, every call that needs a refresh starts its own.
ExistingRefreshNone(inFlight, tenantId) == 0

\* Mutation: one in-flight slot shared by all tenants.
ExistingRefreshAnyTenant(inFlight, tenantId) ==
    IF \E u \in TenantIds : inFlight[u] # 0
    THEN inFlight[CHOOSE u \in TenantIds : inFlight[u] # 0]
    ELSE 0

\* refreshInFlight.get(tenantId)
ExistingRefresh(inFlight, tenantId) == inFlight[tenantId]

\* Mutation: every refresh sends the refresh token of the first onboarding.
RefreshRequestFirstToken(refreshToken) ==
    [grant_type |-> "refresh_token", refresh_token |-> "R0"]

\* The body doRefresh posts to the token endpoint.
RefreshRequest(refreshToken) ==
    [grant_type |-> "refresh_token", refresh_token |-> refreshToken]

\* Mutation: the new refresh promise is not entered in the in-flight table.
RegisterRefreshNowhere(inFlight, tenantId, p) == inFlight

\* refreshInFlight.set(tenantId, refreshPromise)
RegisterRefresh(inFlight, tenantId, p) == [inFlight EXCEPT ![tenantId] = p]

\* doRefresh(tenantId, refreshToken, ...) up to its await: the request is on
\* its way and the promise is pending.
PendingRefresh(tenantId, refreshToken) ==
    [tenantId |-> tenantId, state |-> "pending", request |-> RefreshRequest(refreshToken),
     value |-> Undefined, error |-> ""]

\* getValidAccessToken(tenantId, ...) up to its await, return or throw
getValidAccessToken(tenantId) ==
    /\ LET token == TokenStoreGet(tenantId)
           existing == ExistingRefresh(refreshInFlight, tenantId)
           p == CHOOSE q \in PromiseSlots :
                    /\ refreshes[q].state = "free"
                    /\ \A r \in 1..(q-1) : refreshes[r].state # "free"
       IN  IF token = Undefined
           THEN /\ lastResult' = Threw(tenantId, "No token found for tenant")
                /\ UNCHANGED <<refreshInFlight, refreshes, fetchCalls, calls>>
           ELSE IF NeedsRefresh(now, token)
           THEN IF existing # 0
                THEN /\ SuspendedCalls < MaxCallers
                     /\ calls' = AwaitingCall(calls, tenantId, existing)
                     /\ lastResult' = NoResult
                     /\ UNCHANGED <<refreshInFlight, refreshes, fetchCalls>>
                ELSE /\ SuspendedCalls < MaxCallers
                     /\ fetchCalls < MaxFetchCalls
                     /\ fetchCalls' = fetchCalls + 1
                     /\ refreshes' = [refreshes EXCEPT ![p] =
                                         PendingRefresh(tenantId, token.refreshToken)]
                     /\ refreshInFlight' = RegisterRefresh(refreshInFlight, tenantId, p)
                     /\ calls' = AwaitingCall(calls, tenantId, p)
                     /\ lastResult' = NoResult
           ELSE /\ lastResult' = Returned(tenantId, token.accessToken)
                /\ UNCHANGED <<refreshInFlight, refreshes, fetchCalls, calls>>
    /\ UNCHANGED <<key, storeVars, diskVars, exchanges, now>>

\* Mutation: expires_in taken as milliseconds.
RefreshedTokenSetNoScale(tenantId, raw, nowMs) ==
    XeroTokenSet(tenantId, raw.access_token, raw.refresh_token, nowMs + raw.expires_in)

\* The token set doRefresh builds from a valid response.
RefreshedTokenSet(tenantId, raw, nowMs) ==
    XeroTokenSet(tenantId, raw.access_token, raw.refresh_token,
                 nowMs + raw.expires_in * MsPerSecond)

\* Mutation: a failed refresh drops the tenant's token from the store.
doRefreshDroppingToken(p, res) ==
    /\ p \in PromiseSlots
    /\ refreshes[p].state = "pending"
    /\ CanQueueFlush
    /\ LET raw == tokenRequest(res)
           refreshed == RefreshedTokenSet(refreshes[p].tenantId, raw, now)
       IN  IF raw.ok
           THEN /\ TokenStoreSet(refreshed)
                /\ refreshes' = [refreshes EXCEPT ![p].state = "doRefreshFulfilled",
                                                  ![p].value = refreshed]
           ELSE /\ refreshes' = [refreshes EXCEPT ![p].state = "doRefreshRejected",
                                                  ![p].error = raw.error]
                /\ TokenStoreDelete(refreshes[p].tenantId)
    /\ lastResult' = NoResult
    /\ UNCHANGED <<key, diskVars, refreshInFlight, fetchCalls, calls, exchanges, now>>

\* doRefresh from the settling of fetch() on: tokenRequest validates the
\* response, then the refreshed token set is stored and returned.
doRefresh(p, res) ==
    /\ p \in PromiseSlots
    /\ refreshes[p].state = "pending"
    /\ LET raw == tokenRequest(res)
           refreshed == RefreshedTokenSet(refreshes[p].tenantId, raw, now)
       IN  IF raw.ok
           THEN /\ CanQueueFlush
                /\ TokenStoreSet(refreshed)
                /\ refreshes' = [refreshes EXCEPT ![p].state = "doRefreshFulfilled",
                                                  ![p].value = refreshed]
           ELSE /\ refreshes' = [refreshes EXCEPT ![p].state = "doRefreshRejected",
                                                  ![p].error = raw.error]
                /\ UNCHANGED storeVars
    /\ lastResult' = NoResult
    /\ UNCHANGED <<key, diskVars, refreshInFlight, fetchCalls, calls, exchanges, now>>

\* Mutation: .then instead of .finally, the entry is removed only on success.
refreshThenOnly(p) ==
    /\ p \in PromiseSlots
    /\ refreshes[p].state \in {"doRefreshFulfilled", "doRefreshRejected"}
    /\ refreshInFlight' = IF refreshes[p].state = "doRefreshFulfilled"
                          THEN [refreshInFlight EXCEPT ![refreshes[p].tenantId] = 0]
                          ELSE refreshInFlight
    /\ refreshes' = [refreshes EXCEPT ![p].state =
                        IF @ = "doRefreshFulfilled" THEN "fulfilled" ELSE "rejected"]
    /\ lastResult' = NoResult
    /\ UNCHANGED <<key, storeVars, diskVars, fetchCalls, calls, exchanges, now>>

\* .finally(() => refreshInFlight.delete(tenantId)): runs once doRefresh has
\* settled either way, then the refresh promise settles the same way.
refreshFinally(p) ==
    /\ p \in PromiseSlots
    /\ refreshes[p].state \in {"doRefreshFulfilled", "doRefreshRejected"}
    /\ refreshInFlight' = [refreshInFlight EXCEPT ![refreshes[p].tenantId] = 0]
    /\ refreshes' = [refreshes EXCEPT ![p].state =
                        IF @ = "doRefreshFulfilled" THEN "fulfilled" ELSE "rejected"]
    /\ lastResult' = NoResult
    /\ UNCHANGED <<key, storeVars, diskVars, fetchCalls, calls, exchanges, now>>

\* Mutation: when the awaited refresh was rejected the call falls back to the
\* access token still in the store.
awaitRefreshPromiseStaleFallback(p, tenantId) ==
    /\ p \in PromiseSlots
    /\ calls[p][tenantId] > 0
    /\ LET r == refreshes[p]
       IN  /\ r.state \in {"fulfilled", "rejected"}
           /\ lastResult' = IF r.state = "fulfilled"
                            THEN Returned(tenantId, r.value.accessToken)
                            ELSE IF MapHas(map, tenantId)
                                 THEN Returned(tenantId, MapGet(map, tenantId).accessToken)
                                 ELSE Threw(tenantId, r.error)
           /\ calls' = ResumedCall(calls, tenantId, p)
           /\ refreshes' = IF Awaiting(p) > 1
                           THEN refreshes
                           ELSE [refreshes EXCEPT ![p] = FreeSlot]
    /\ UNCHANGED <<key, storeVars, diskVars, refreshInFlight, fetchCalls, exchanges, now>>

\* getValidAccessToken after `await refreshPromise`.  Once the last call
\* awaiting a settled promise has resumed, nothing refers to the promise.
awaitRefreshPromise(p, tenantId) ==
    /\ p \in PromiseSlots
    /\ calls[p][tenantId] > 0
    /\ LET r == refreshes[p]
       IN  /\ r.state \in {"fulfilled", "rejected"}
           /\ lastResult' = IF r.state = "fulfilled"
                            THEN Returned(tenantId, r.value.accessToken)
                            ELSE Threw(tenantId, r.error)
           /\ calls' = ResumedCall(calls, tenantId, p)
           /\ refreshes' = IF Awaiting(p) > 1
                           THEN refreshes
                           ELSE [refreshes EXCEPT ![p] = FreeSlot]
    /\ UNCHANGED <<key, storeVars, diskVars, refreshInFlight, fetchCalls, exchanges, now>>

\* The body exchangeCodeForToken posts to the token endpoint.
ExchangeRequest == [grant_type |-> "authorization_code"]

\* exchangeCodeForTokenAndStore(code, ..., tenantId) up to its await: the
\* request is on its way.
exchangeCodeForTokenAndStore(tenantId) ==
    /\ SuspendedCalls < MaxCallers
    /\ fetchCalls < MaxFetchCalls
    /\ fetchCalls' = fetchCalls + 1
    /\ exchanges' = [exchanges EXCEPT ![tenantId] = @ + 1]
    /\ lastResult' = NoResult
    /\ UNCHANGED <<key, storeVars, diskVars, refreshInFlight, refreshes, calls, now>>

\* The token set exchangeCodeForTokenAndStore builds from a valid response.
ExchangedTokenSet(tenantId, raw, nowMs) ==
    XeroTokenSet(tenantId, raw.access_token, raw.refresh_token,
                 nowMs + raw.expires_in * MsPerSecond)

\* exchangeCodeForTokenAndStore from the settling of fetch() on: tokenRequest
\* validates the response, then the token set is stored and returned.
exchangeCodeSettles(tenantId, res) ==
    /\ exchanges[tenantId] > 0
    /\ exchanges' = [exchanges EXCEPT ![tenantId] = @ - 1]
    /\ LET raw == tokenRequest(res)
           token == ExchangedTokenSet(tenantId, raw, now)
       IN  IF raw.ok
           THEN /\ CanQueueFlush
                /\ TokenStoreSet(token)
                /\ lastResult' = Returned(tenantId, token.accessToken)
           ELSE /\ UNCHANGED storeVars
                /\ lastResult' = Threw(tenantId, raw.error)
    /\ UNCHANGED <<key, diskVars, refreshInFlight, refreshes, fetchCalls, calls, now>>

\* Time passes.
Tick ==
    /\ now < MaxNow
    /\ now' = now + 1
    /\ lastResult' = NoResult
    /\ UNCHANGED <<key, storeVars, diskVars, authVars>>

(***************************************************************************)
(* Spec: the refresh coordinator in front of the token endpoint, two       *)
(* tenants, over the in-memory token store.                                *)
(***************************************************************************)
AuthTenantIds == {"t1", "t2"}

\* t1 expires exactly the refresh buffer after time 0 (refresh needed from
\* the start), t2 one millisecond later (valid until the clock ticks).
AuthInputTokens ==
    InputTokens({"t1"}, {<<"A0", "R0">>}, {REFRESH_TOKEN_BUFFER_MS})
        \cup InputTokens({"t2"}, {<<"A1", "R1">>}, {REFRESH_TOKEN_BUFFER_MS + 1})

AuthInit == Init /\ key = NoKey

Next ==
    \/ \E token \in AuthInputTokens : storeToken(token)
    \/ \E tenantId \in AuthTenantIds : getValidAccessToken(tenantId)
    \/ \E p \in PromiseSlots, res \in Responses : doRefresh(p, res)
    \/ \E p \in PromiseSlots : refreshFinally(p)
    \/ \E p \in PromiseSlots, tenantId \in AuthTenantIds : awaitRefreshPromise(p, tenantId)
    \/ \E tenantId \in AuthTenantIds : exchangeCodeForTokenAndStore(tenantId)
    \/ \E tenantId \in AuthTenantIds, res \in Responses : exchangeCodeSettles(tenantId, res)
    \/ Tick

Spec == AuthInit /\ [][Next]_vars

(***************************************************************************)
(* SpecTenants: the refresh coordinator as in Spec, with tenants being     *)
(* offboarded through the store's delete, and a token endpoint that may    *)
(* answer a refresh with the refresh token it was sent.                    *)
(***************************************************************************)
\* A valid response that carries t1's first refresh token again.
EchoResponses == {HttpResponse(200, JsonBody(JString("A4"), JString("R0"), JNumber(60)))}

\* One response that rotates the refresh token, one that echoes it, and
\* two failures.
TenantsResponses ==
    { HttpResponse(200, JsonBody(JString("A3"), JString("R3"), JNumber(60))),
      NetworkError,
      HttpResponse(400, [json |-> FALSE]) } \cup EchoResponses

NextTenants ==
    \/ \E token \in AuthInputTokens : storeToken(token)
    \/ \E tenantId \in AuthTenantIds : deleteToken(tenantId)
    \/ \E tenantId \in AuthTenantIds : getValidAccessToken(tenantId)
    \/ \E p \in PromiseSlots, res \in TenantsResponses : doRefresh(p, res)
    \/ \E p \in PromiseSlots : refreshFinally(p)
    \/ \E p \in PromiseSlots, tenantId \in AuthTenantIds : awaitRefreshPromise(p, tenantId)
    \/ Tick

SpecTenants == AuthInit /\ [][NextTenants]_vars

\* ---------------------------------------------------------------------------
\* The refresh coordinator when every token-endpoint call eventually settles
\* ---------------------------------------------------------------------------

\* One well-formed answer and one failure.
LiveResponses ==
    { HttpResponse(200, JsonBody(JString("A2"), JString("R2"), JNumber(1800))), NetworkError }

NextLive ==
    \/ \E token \in AuthInputTokens : storeToken(token)
    \/ \E tenantId \in AuthTenantIds : getValidAccessToken(tenantId)
    \/ \E p \in PromiseSlots, res \in LiveResponses : doRefresh(p, res)
    \/ \E p \in PromiseSlots : refreshFinally(p)
    \/ \E p \in PromiseSlots, tenantId \in AuthTenantIds : awaitRefreshPromise(p, tenantId)
    \/ Tick

\* Every pending token request is eventually answered (the assumption on the
\* token endpoint); the finally callback of a settled doRefresh and the
\* continuation of a call whose awaited promise has settled are jobs of the
\* event loop, which runs every job it has queued.
SpecLive ==
    /\ AuthInit
    /\ [][NextLive]_vars
    /\ \A p \in PromiseSlots :
          /\ WF_vars(\E res \in LiveResponses : doRefresh(p, res))
          /\ WF_vars(refreshFinally(p))
          /\ \A tenantId \in AuthTenantIds : WF_vars(awaitRefreshPromise(p, tenantId))

(***************************************************************************)
(* SpecStore: the token store on its own, either variant, with the flush   *)
(* chain, the disk, and process restarts.                                  *)
(***************************************************************************)
StoreExpiry == REFRESH_TOKEN_BUFFER_MS

\* Two tenants, one of them with the empty string for an id; t1 comes with
\* two different sets of credentials.
StoreTenantIds == {"", "t1"}

\* Positions in the flush chain: the flushes waiting and one under way.
FlushSlots == 1..(MaxQueuedFlushes + 1)

StoreInputTokens ==
    InputTokens(StoreTenantIds, {<<"A0", "R0">>}, {StoreExpiry})
        \cup InputTokens({"t1"}, {<<"A1", "R1">>}, {StoreExpiry + 1})

NextStore ==
    \/ \E token \in StoreInputTokens : storeToken(token)
    \/ \E tenantId \in StoreTenantIds : deleteToken(tenantId)
    \/ \E i \in FlushSlots : FlushStart(i)
    \/ \E i \in FlushSlots : FlushMkdir(i)
    \/ \E i \in FlushSlots : FlushWrite(i)
    \/ \E i \in FlushSlots : FlushRename(i)
    \/ Restart
    \/ Tick

SpecStore == Init /\ [][NextStore]_vars

(***************************************************************************)
(* SpecLoad: the process starts with some key in its environment and some  *)
(* file at the store path; construction succeeds or throws; afterwards     *)
(* the store is used, flushed and reconstructed.                           *)
(***************************************************************************)
\* The token set found in the files on disk.
LoadToken == XeroTokenSet("t1", "A0", "R0", StoreExpiry)

\* The maps the files on disk were written from.
LoadMaps == {<<>>, <<[key |-> "t1", value |-> LoadToken]>>}

\* The keys the files on disk were written under.
WriterKeys == {"K1", "K2"}

\* The envelope of a plaintext encrypted under `k` with nonce `iv`.
SealedEnvelope(k, plaintext, iv) ==
    LET enc == encryptAes256Gcm(k, plaintext, iv)
    IN  [version |-> EnvelopeVersion, alg |-> "aes-256-gcm",
         iv |-> ToBase64(enc.iv), tag |-> ToBase64(enc.tag), data |-> ToBase64(enc.data)]

\* Envelopes as flushToDiskOnce writes them.
WrittenEnvelopes == {BuildEnvelope(k, m, 0, 0) : k \in WriterKeys, m \in LoadMaps}

\* An envelope written under K1 with one field changed afterwards: another
\* version, another algorithm, the tag, the ciphertext or the nonce of
\* another envelope.
TamperedEnvelopes ==
    LET e == BuildEnvelope("K1", <<[key |-> "t1", value |-> LoadToken]>>, 0, 0)
        other == BuildEnvelope("K1", <<>>, 0, 1)
    IN  { [e EXCEPT !.version = 2], [e EXCEPT !.alg = "aes-128-gcm"],
          [e EXCEPT !.tag = other.tag], [e EXCEPT !.data = other.data],
          [e EXCEPT !.iv = other.iv] }

\* Plaintexts that are not what flushToDiskOnce serialises: not JSON, a
\* payload of version 2, an updatedAt that is a string, no tokens, an entry
\* under another tenantId than its token's, an entry under the empty string.
OddPlaintexts ==
    { <<"garbage">>,
      StringifyPayload(2, 0, <<[key |-> "t1", value |-> LoadToken]>>),
      LoosePayloadText(PayloadVersion, "string", TRUE),
      LoosePayloadText(PayloadVersion, "number", FALSE),
      StringifyPayload(PayloadVersion, 0, <<[key |-> "t2", value |-> LoadToken]>>),
      StringifyPayload(PayloadVersion, 0,
                       <<[key |-> "", value |-> XeroTokenSet("", "A0", "R0", StoreExpiry)]>>) }

\* The files the process may find at the store path.
DiskFiles ==
    {AbsentFile, TextFile(<<"empty">>), TextFile(<<"whitespace">>), TextFile(<<"garbage">>)}
        \cup {TextFile(StringifyEnvelope(e)) : e \in WrittenEnvelopes \cup TamperedEnvelopes}
        \cup {TextFile(StringifyEnvelope(SealedEnvelope("K1", p, 0))) : p \in OddPlaintexts}

\* The token set stored after construction.
LoadInputTokens == {XeroTokenSet("t1", "A1", "R1", StoreExpiry + 1)}

\* What the token endpoint answers after construction: a valid response or
\* a failure.
LoadResponses ==
    { HttpResponse(200, JsonBody(JString("A2"), JString("R2"), JNumber(1800))), NetworkError }

\* The module was loaded: its tokenStore exists.
Constructed == createTokenStoreFromEnv(key, file).ok

\* The state after createTokenStoreFromEnv ran at module load.
InitLoad ==
    \E k \in LoadEnvKeys, f \in DiskFiles :
        LET made == createTokenStoreFromEnv(k, f) IN
        /\ key = k
        /\ file = f
        /\ map = (IF made.ok THEN made.map ELSE <<>>)
        /\ lastResult = (IF made.ok THEN NoResult ELSE Threw("", made.error))
        /\ flushChain = NoFlushes
        /\ lastFlushError = "none"
        /\ tmpFile = AbsentFile
        /\ refreshInFlight = [t \in TenantIds |-> 0]
        /\ refreshes = NoRefreshes
        /\ fetchCalls = 0
        /\ calls = NoCalls
        /\ exchanges = NoExchanges
        /\ now = 0

NextLoad ==
    \/ Constructed /\ \E token \in LoadInputTokens : storeToken(token)
    \/ Constructed /\ \E tenantId \in {"t1"} : deleteToken(tenantId)
    \/ \E i \in FlushSlots : FlushStart(i)
    \/ \E i \in FlushSlots : FlushMkdir(i)
    \/ \E i \in FlushSlots : FlushWrite(i)
    \/ \E i \in FlushSlots : FlushRename(i)
    \/ Constructed /\ \E tenantId \in {"t1"} : exchangeCodeForTokenAndStore(tenantId)
    \/ \E tenantId \in {"t1"}, res \in LoadResponses : exchangeCodeSettles(tenantId, res)
    \/ Restart
    \/ RestartFails

SpecLoad == InitLoad /\ [][NextLoad]_vars

(***************************************************************************)
(* Properties of the refresh coordinator.                                  *)
(***************************************************************************)
Promises == {p \in PromiseSlots : refreshes[p].state # "free"}

\* The refresh promise p has not settled: its request is outstanding, or
\* doRefresh has settled and the finally callback has not run yet.
Unsettled(p) == refreshes[p].state \in {"pending", "doRefreshFulfilled", "doRefreshRejected"}

Outstanding(tenantId) ==
    {p \in Promises : refreshes[p].tenantId = tenantId /\ refreshes[p].state = "pending"}

\* A step in which a call for tenant t suspends on the refresh promise p.
Suspends(p, t) == calls'[p][t] = calls[p][t] + 1

\* A step in which a call for tenant t resumes from its await of p.
Resumes(p, t) == calls[p][t] > 0 /\ calls'[p][t] = calls[p][t] - 1

\* A step in which a call settles without having awaited anything.
SettlesAtOnce == lastResult' # NoResult /\ calls' = calls /\ exchanges' = exchanges

\* A step in which a code exchange for tenant t sends its request.
ExchangeStarts(t) == exchanges'[t] = exchanges[t] + 1

\* A step in which a code exchange for tenant t resumes with the response.
ExchangeSettles(t) == exchanges[t] > 0 /\ exchanges'[t] = exchanges[t] - 1

\* A step in which the promise p is created, its request on the way.
Starts(p) == refreshes[p].state = "free" /\ refreshes'[p].state = "pending"

\* C1: calls for one tenant that overlap an unsettled refresh all await the
\* same refresh promise; a request goes to the token endpoint exactly when a
\* refresh promise is created (or a code exchange begins), so a call that
\* finds a refresh in flight joins it without a request; and every call that awaited a refresh resolves to
\* the access token the refresh fulfilled with.
C1_SameTenantCallsShareOneRefresh ==
    /\ [](\A p, q \in Promises, t \in TenantIds :
            ( /\ calls[p][t] > 0 /\ calls[q][t] > 0
              /\ Unsettled(p) /\ Unsettled(q) ) => p = q)
    /\ [][fetchCalls' = fetchCalls + Cardinality({p \in PromiseSlots : Starts(p)})
                                   + Cardinality({t \in TenantIds : ExchangeStarts(t)})]_vars
    /\ [][\A p \in PromiseSlots, t \in TenantIds :
            (Suspends(p, t) /\ refreshInFlight[t] # 0)
            => /\ p = refreshInFlight[t]
               /\ fetchCalls' = fetchCalls
               /\ refreshes' = refreshes]_vars
    /\ [][\A p \in PromiseSlots, t \in TenantIds :
            (Resumes(p, t) /\ refreshes[p].state = "fulfilled")
            => lastResult' = Returned(t, refreshes[p].value.accessToken)]_vars

\* One call has resolved through a refresh that made the only request, while
\* another call still awaits that same refresh.  (The token is inside the
\* buffer again, so the access token can only have come from the refresh.)
C1_Witness ==
    \E p \in Promises :
        /\ refreshes[p].state = "fulfilled"
        /\ refreshes[p].value.expiresAt - REFRESH_TOKEN_BUFFER_MS <= 0
        /\ lastResult = Returned(refreshes[p].tenantId, refreshes[p].value.accessToken)
        /\ calls[p][refreshes[p].tenantId] = 1
        /\ fetchCalls = 1

\* C2: at most one request to the token endpoint is outstanding per tenant.
C2_AtMostOneOutstandingRefreshPerTenant ==
    \A t \in TenantIds : Cardinality(Outstanding(t)) <= 1

\* A tenant's second refresh is outstanding after its first one settled.
C2_Witness ==
    \E p, q \in Promises :
        /\ p # q /\ refreshes[p].tenantId = refreshes[q].tenantId
        /\ ~Unsettled(p) /\ refreshes[q].state = "pending"
        /\ fetchCalls = 2

\* C3: a call only ever awaits a refresh of its own tenant; a refresh that
\* succeeds changes the token set of its own tenant only; an outstanding
\* refresh can always complete; and a tenant whose token needs a refresh and
\* that has none in flight gets a new request, carrying the refresh token
\* stored for it, whatever the state of the other tenants' refreshes.
C3_TenantsRefreshIndependently ==
    /\ [](\A p \in PromiseSlots, t \in TenantIds :
            calls[p][t] > 0 => p \in Promises /\ refreshes[p].tenantId = t)
    /\ [](\A p \in Promises : refreshes[p].state = "pending"
            => ENABLED (\E res \in ValidResponses : doRefresh(p, res)))
    /\ [](\A t \in AuthTenantIds :
            ( /\ MapHas(map, t)
              /\ now >= MapGet(map, t).expiresAt - 60000
              /\ refreshInFlight[t] = 0
              /\ SuspendedCalls < MaxCallers /\ fetchCalls < MaxFetchCalls )
            => ENABLED ( /\ getValidAccessToken(t)
                         /\ fetchCalls' = fetchCalls + 1
                         /\ \E p \in PromiseSlots :
                              /\ Starts(p) /\ Suspends(p, t)
                              /\ refreshes'[p].tenantId = t
                              /\ refreshes'[p].request =
                                   [grant_type |-> "refresh_token",
                                    refresh_token |-> MapGet(map, t).refreshToken]
                              /\ refreshInFlight' = [refreshInFlight EXCEPT ![t] = p] ))
    /\ [][\A p \in PromiseSlots :
            (refreshes[p].state = "pending" /\ refreshes'[p].state = "doRefreshFulfilled")
            => \A u \in TenantIds \ {refreshes[p].tenantId} :
                  MapGet(map', u) = MapGet(map, u)]_vars

\* The refreshes of two tenants are outstanding at the same time, each sent
\* with its own tenant's refresh token.
C3_Witness ==
    \E p, q \in Promises :
        /\ refreshes[p].tenantId = "t1" /\ refreshes[q].tenantId = "t2"
        /\ refreshes[p].state = "pending" /\ refreshes[q].state = "pending"
        /\ refreshes[p].request.refresh_token = "R0"
        /\ refreshes[q].request.refresh_token = "R1"
        /\ fetchCalls = 2

\* C4: a tenant has an entry in the in-flight table exactly while it has an
\* unsettled refresh promise, the entry is that promise, and a call that finds
\* the tenant's token in need of refresh with every earlier refresh settled
\* (fulfilled or rejected) starts a new request.
C4_InFlightEntryExactlyWhileUnsettled ==
    /\ [](\A t \in TenantIds :
            /\ refreshInFlight[t] # 0 =>
                 /\ refreshInFlight[t] \in Promises
                 /\ refreshes[refreshInFlight[t]].tenantId = t
                 /\ Unsettled(refreshInFlight[t])
            /\ \A p \in Promises :
                 (refreshes[p].tenantId = t /\ Unsettled(p)) => refreshInFlight[t] = p)
    /\ [][\A p \in PromiseSlots, t \in TenantIds :
            ( /\ Suspends(p, t)
              /\ \A q \in Promises : refreshes[q].tenantId = t => ~Unsettled(q) )
            => /\ fetchCalls' = fetchCalls + 1
               /\ Starts(p)]_vars

\* After a tenant's refresh was rejected, a new refresh for it is outstanding.
C4_Witness ==
    \E p, q \in Promises :
        /\ refreshes[p].tenantId = refreshes[q].tenantId
        /\ refreshes[p].state = "rejected" /\ refreshes[q].state = "pending"
        /\ refreshInFlight[refreshes[q].tenantId] = q

\* C5: a network error, a non-2xx response and an invalid response all make
\* the refresh fail; the failing step changes neither the store nor the
\* number of requests made; and every call resuming from the rejected
\* refresh throws its error without touching the store, the in-flight table
\* or the token endpoint.
C5_FailedRefreshPropagatesAndKeepsStore ==
    /\ [](\A res \in InvalidResponses : ~tokenRequest(res).ok)
    /\ [](\A p \in Promises : refreshes[p].state \in {"doRefreshRejected", "rejected"}
            => refreshes[p].error # "")
    /\ [][\A p \in PromiseSlots :
            (refreshes[p].state = "pending" /\ refreshes'[p].state = "doRefreshRejected")
            => map' = map /\ flushChain' = flushChain /\ fetchCalls' = fetchCalls]_vars
    /\ [][\A p \in PromiseSlots, t \in TenantIds :
            (Resumes(p, t) /\ refreshes[p].state = "rejected")
            => /\ lastResult' = [outcome |-> "threw", tenantId |-> t,
                                 value |-> refreshes[p].error]
               /\ map' = map /\ fetchCalls' = fetchCalls
               /\ refreshInFlight' = refreshInFlight
               /\ \A q \in PromiseSlots : ~Starts(q)]_vars

\* A call threw the error of its tenant's rejected refresh while another
\* call still awaits that refresh; the stale token is still in the store and
\* one request was made.
C5_Witness ==
    \E p \in Promises :
        /\ refreshes[p].state = "rejected"
        /\ calls[p][refreshes[p].tenantId] = 1
        /\ lastResult = Threw(refreshes[p].tenantId, refreshes[p].error)
        /\ MapHas(map, refreshes[p].tenantId)
        /\ MapGet(map, refreshes[p].tenantId).refreshToken = refreshes[p].request.refresh_token
        /\ fetchCalls = 1

\* C6: the step in which a refresh succeeds puts into the store, for the
\* refresh's tenant, the token set made of the response's access token, its
\* refresh token and expiry = now + expires_in seconds, and no call resumes
\* in that step; a call that then finds this token set in the store is
\* suspended only if the token is inside the refresh buffer, and otherwise
\* returns its access token without a request.
C6_SuccessfulRefreshIsStoredBeforeReturned ==
    /\ [][\A p \in PromiseSlots :
            (refreshes[p].state = "pending" /\ refreshes'[p].state = "doRefreshFulfilled")
            => LET t == refreshes[p].tenantId
                   v == MapGet(map', t)
               IN  /\ \E res \in ValidResponses :
                        v = [tenantId |-> t,
                             accessToken |-> res.body.access_token.str,
                             refreshToken |-> res.body.refresh_token.str,
                             expiresAt |-> now + res.body.expires_in.num * 1000]
                   /\ refreshes'[p].value = v
                   /\ calls' = calls /\ lastResult' = NoResult
                   /\ Awaiting(p) > 0 ]_vars
    /\ [][\A p, q \in PromiseSlots :
            ( /\ refreshes[p].state = "fulfilled"
              /\ MapGet(map, refreshes[p].tenantId) = refreshes[p].value
              /\ Suspends(q, refreshes[p].tenantId) )
            => now >= refreshes[p].value.expiresAt - 60000]_vars
    /\ [][\A p \in PromiseSlots :
            ( /\ refreshes[p].state = "fulfilled"
              /\ MapGet(map, refreshes[p].tenantId) = refreshes[p].value
              /\ SettlesAtOnce /\ lastResult'.tenantId = refreshes[p].tenantId )
            => /\ lastResult'.outcome = "returned"
               /\ lastResult'.value = refreshes[p].value.accessToken
               /\ fetchCalls' = fetchCalls /\ refreshes' = refreshes]_vars

\* With the refresh fulfilled and the calls that awaited it not yet resumed,
\* a later call returned the new access token straight from the store; one
\* request was made in all.
C6_Witness ==
    \E p \in Promises :
        /\ refreshes[p].state = "fulfilled"
        /\ MapGet(map, refreshes[p].tenantId) = refreshes[p].value
        /\ now < refreshes[p].value.expiresAt - REFRESH_TOKEN_BUFFER_MS
        /\ Awaiting(p) = MaxCallers
        /\ lastResult = Returned(refreshes[p].tenantId, refreshes[p].value.accessToken)
        /\ fetchCalls = 1

\* C7: a call returns the stored access token at once, changing nothing and
\* making no request, only when now < expiresAt - 60000; a call is suspended
\* on a refresh only when now >= expiresAt - 60000, and then the tenant has
\* exactly one unsettled refresh, started by this call unless one was
\* already in flight.
C7_RefreshBufferBoundary ==
    /\ [][(SettlesAtOnce /\ lastResult'.outcome = "returned")
            => LET token == MapGet(map, lastResult'.tenantId)
               IN  /\ token # Undefined
                   /\ now < token.expiresAt - 60000
                   /\ lastResult'.value = token.accessToken
                   /\ UNCHANGED <<map, flushChain, fetchCalls, refreshes, refreshInFlight>>]_vars
    /\ [][\A p \in PromiseSlots, t \in TenantIds : Suspends(p, t) =>
            LET token == MapGet(map, t)
            IN  /\ token # Undefined
                /\ now >= token.expiresAt - 60000
                /\ fetchCalls' = fetchCalls + (IF refreshInFlight[t] = 0 THEN 1 ELSE 0)
                /\ Cardinality({q \in PromiseSlots :
                       /\ refreshes'[q].tenantId = t
                       /\ refreshes'[q].state \in {"pending", "doRefreshFulfilled",
                                                   "doRefreshRejected"}}) = 1
                /\ UNCHANGED <<map, flushChain>>]_vars

\* A call is suspended on the one request made for a token that is exactly
\* at the buffer boundary.
C7_Witness ==
    \E p \in Promises :
        LET t == refreshes[p].tenantId
        IN  /\ calls[p][t] > 0
            /\ refreshes[p].state = "pending"
            /\ MapHas(map, t)
            /\ now = MapGet(map, t).expiresAt - REFRESH_TOKEN_BUFFER_MS
            /\ now > 0
            /\ fetchCalls = 1

\* C8: a call throws at once exactly for a tenant without a token set: it
\* throws the tenant-not-onboarded error, makes no request, creates no
\* in-flight entry and changes neither the store nor any other call; calls
\* that return or suspend are for tenants that have a token set.
C8_UnknownTenantFails ==
    /\ [](\A t \in AuthTenantIds : ~MapHas(map, t)
            => ENABLED ( /\ getValidAccessToken(t)
                         /\ lastResult' = [outcome |-> "threw", tenantId |-> t,
                                           value |-> "No token found for tenant"] ))
    /\ [][(SettlesAtOnce /\ lastResult'.outcome = "threw")
            => /\ ~MapHas(map, lastResult'.tenantId)
               /\ lastResult'.value = "No token found for tenant"
               /\ UNCHANGED <<map, flushChain, fetchCalls, refreshes, refreshInFlight>>]_vars
    /\ [][(SettlesAtOnce /\ lastResult'.outcome = "returned")
            => MapHas(map, lastResult'.tenantId)]_vars
    /\ [][\A p \in PromiseSlots, t \in TenantIds : Suspends(p, t) => MapHas(map, t)]_vars

\* A call for a tenant that is not on record threw while another tenant is
\* on record; nothing is in flight and no request was made.
C8_Witness ==
    /\ lastResult.outcome = "threw"
    /\ lastResult.value = "No token found for tenant"
    /\ ~MapHas(map, lastResult.tenantId)
    /\ map # <<>>
    /\ \A t \in TenantIds : refreshInFlight[t] = 0
    /\ fetchCalls = 0

(***************************************************************************)
(* Properties of the token store.                                          *)
(***************************************************************************)
\* The flush chain has drained and this store instance recorded no flush error.
Drained == flushChain = NoFlushes /\ lastFlushError = "none"

\* C9: in either variant the step that sets a token set leaves the store
\* with exactly that token set under its tenantId (get returns it, has is
\* true) whatever the flush chain is doing, and without touching the file;
\* the map never holds two entries for one tenantId, and every entry is
\* filed under the tenantId it carries.
C9_SetThenGetReturnsWhatWasWritten ==
    /\ [](\A i, j \in 1..Len(map) : map[i].key = map[j].key => i = j)
    /\ [](\A i \in 1..Len(map) : map[i].value.tenantId = map[i].key)
    /\ [][\A token \in StoreInputTokens : storeToken(token) =>
            /\ TokenStoreGet(token.tenantId)' = token
            /\ TokenStoreHas(token.tenantId)'
            /\ file' = file]_vars

\* On the file variant, t1 was set again while the flush of its first token
\* set is still on its way to a file that does not exist yet: the store
\* holds the second token set only.
C9_Witness ==
    /\ IsFileStore
    /\ file = AbsentFile
    /\ Len(flushChain) = 2
    /\ flushChain[1].stage = "mkdir" /\ flushChain[2].stage = "queued"
    /\ \E iv \in Nonces, first \in StoreInputTokens :
          /\ first.tenantId = "t1" /\ first.accessToken = "A0"
          /\ flushChain[1].envelope =
                BuildEnvelope(key, <<[key |-> "t1", value |-> first]>>, 0, iv)
    /\ Len(map) = 1
    /\ TokenStoreHas("t1")
    /\ TokenStoreGet("t1").accessToken = "A1"
    /\ TokenStoreGet("t1").refreshToken = "R1"

NotOkError == "Xero token request failed"

NotJsonError == "Xero token response was not valid JSON"

ShapeError == "Xero token response did not match expected shape"

\* A response body with non-empty string tokens and a positive integer lifetime.
WellShaped(body) ==
    /\ body.access_token.type = "string" /\ body.access_token.str # ""
    /\ body.refresh_token.type = "string" /\ body.refresh_token.str # ""
    /\ body.expires_in.type = "number" /\ body.expires_in.int /\ body.expires_in.num >= 1

\* C19: tokenRequest accepts a response exactly if it is HTTP 2xx, its body
\* is JSON and carries non-empty string tokens and a positive integer
\* expires_in; a non-2xx response, a 2xx body that is not JSON and a 2xx body
\* of the wrong shape are rejected with three different errors; and the
\* step in which a refresh or a code exchange receives a rejected response
\* throws that error (the exchange) or rejects with it (the refresh) and
\* leaves the store as it was, while a store change in such a step is the
\* token set of an accepted response.
C19_OnlyValidatedResponsesAreStored ==
    /\ [](\A res \in Responses :
            tokenRequest(res).ok <=>
              ( /\ res.net = "ok" /\ res.status >= 200 /\ res.status <= 299
                /\ res.body.json /\ WellShaped(res.body) ))
    /\ [](\A res \in Responses : res.net = "ok" =>
            /\ ~(res.status >= 200 /\ res.status <= 299)
                 => tokenRequest(res).error = NotOkError
            /\ (res.status >= 200 /\ res.status <= 299 /\ ~res.body.json)
                 => tokenRequest(res).error = NotJsonError
            /\ (res.status >= 200 /\ res.status <= 299 /\ res.body.json /\ ~WellShaped(res.body))
                 => tokenRequest(res).error = ShapeError)
    /\ [](\A t \in TenantIds, res \in InvalidResponses : exchanges[t] > 0 =>
            ENABLED ( /\ exchangeCodeSettles(t, res)
                      /\ map' = map /\ flushChain' = flushChain
                      /\ lastResult' = [outcome |-> "threw", tenantId |-> t,
                                        value |-> tokenRequest(res).error] ))
    /\ [][\A t \in TenantIds : ExchangeSettles(t) =>
            \/ /\ lastResult'.outcome = "threw"
               /\ lastResult'.value \in {"fetch failed", NotOkError, NotJsonError, ShapeError}
               /\ map' = map /\ flushChain' = flushChain
            \/ /\ lastResult'.outcome = "returned"
               /\ \E res \in Responses :
                    /\ res.net = "ok" /\ res.status >= 200 /\ res.status <= 299
                    /\ res.body.json /\ WellShaped(res.body)
                    /\ MapGet(map', t) =
                         [tenantId |-> t,
                          accessToken |-> res.body.access_token.str,
                          refreshToken |-> res.body.refresh_token.str,
                          expiresAt |-> now + res.body.expires_in.num * 1000]
                    /\ lastResult'.value = res.body.access_token.str]_vars
    /\ [][\A p \in PromiseSlots :
            (refreshes[p].state = "pending" /\ refreshes'[p].state # "pending") =>
            \/ /\ refreshes'[p].state = "doRefreshRejected"
               /\ refreshes'[p].error \in {"fetch failed", NotOkError, NotJsonError, ShapeError}
               /\ map' = map /\ flushChain' = flushChain
            \/ /\ refreshes'[p].state = "doRefreshFulfilled"
               /\ \E res \in Responses :
                    /\ res.net = "ok" /\ res.status >= 200 /\ res.status <= 299
                    /\ res.body.json /\ WellShaped(res.body)
                    /\ MapGet(map', refreshes[p].tenantId).accessToken = res.body.access_token.str]_vars

\* A code exchange for a tenant that has no token set threw the error of a
\* response of the wrong shape; the store is still empty.
C19_Witness ==
    /\ lastResult.outcome = "threw"
    /\ lastResult.value = ShapeError
    /\ map = <<>>
    /\ fetchCalls = 1
    /\ \A t \in TenantIds : exchanges[t] = 0

(***************************************************************************)
(* Properties of the flush chain and of the files it writes.               *)
(***************************************************************************)
\* The flushes of the chain that are between their start and their rename.
RunningFlushes ==
    {i \in 1..Len(flushChain) : flushChain[i].stage \in {"mkdir", "write", "rename"}}

\* A step in which the i-th flush of the chain starts.
FlushStarts(i) ==
    /\ i \in 1..Len(flushChain) /\ flushChain[i].stage = "queued"
    /\ Len(flushChain') = Len(flushChain) /\ flushChain'[i].stage = "mkdir"

\* A step of the running process in which the oldest flush settles.
FlushSettles ==
    /\ flushChain # <<>> /\ flushChain' = Tail(flushChain)
    /\ \E i \in FlushSlots : FlushMkdir(i) \/ FlushWrite(i) \/ FlushRename(i)

\* A step in which a flush fails: it settles and its temporary file, if it
\* has one, is not renamed.
FlushFailure == FlushSettles /\ tmpFile' = tmpFile

\* What the envelope decrypts to under the store's key.
SnapshotOf(envelope) ==
    ParsePayload(decryptAes256Gcm(key, FromBase64(envelope.iv), FromBase64(envelope.tag),
                                  FromBase64(envelope.data)).plaintext)

C13_StorePathChangesOnlyByRename ==
    /\ [][file' # file =>
            /\ flushChain # <<>> /\ flushChain[1].stage = "rename"
            /\ tmpFile = TextFile(StringifyEnvelope(flushChain[1].envelope))
            /\ file' = tmpFile
            /\ flushChain' = Tail(flushChain)]_vars
    /\ [](IsFileStore =>
            \/ file = AbsentFile
            \/ /\ file.kind = "text" /\ ParseEnvelope(file.text).json
               /\ loadFromDiskIfPresent(file, key).ok)
    /\ [][Restart => file' = file]_vars

\* After a restart that cut a flush short while it was writing its temporary
\* file, the store path still holds the previous envelope, with t1 in it.
C13_Witness ==
    /\ IsFileStore
    /\ flushChain = NoFlushes /\ lastFlushError = "none"
    /\ tmpFile = TextFile(<<"partial">>)
    /\ file # AbsentFile
    /\ MapHas(loadFromDiskIfPresent(file, key).map, "t1")

\* C14: the step of a set or delete hands no error to its caller, leaves the
\* map with the mutation applied and the last flush error as it was; the
\* step in which a flush fails records the error of the stage that failed,
\* hands nothing to any caller and leaves the map and the store path alone;
\* and set stays possible after a failure.
C14_FlushFailureIsRecordedNotThrown ==
    /\ [][\A token \in StoreInputTokens : storeToken(token) =>
            /\ lastResult' = NoResult
            /\ TokenStoreGet(token.tenantId)' = token
            /\ lastFlushError' = lastFlushError]_vars
    /\ [][\A tenantId \in StoreTenantIds : deleteToken(tenantId) =>
            /\ lastResult' = NoResult
            /\ ~TokenStoreHas(tenantId)'
            /\ lastFlushError' = lastFlushError]_vars
    /\ [][FlushFailure =>
            /\ lastFlushError' = ( CASE flushChain[1].stage = "mkdir" -> "mkdir failed"
                                     [] flushChain[1].stage = "write" -> "writeFile failed"
                                     [] flushChain[1].stage = "rename" -> "rename failed" )
            /\ lastResult' = NoResult
            /\ map' = map /\ file' = file]_vars
    /\ []((lastFlushError # "none" /\ CanQueueFlush) =>
            \A token \in StoreInputTokens : ENABLED storeToken(token))

\* The flush of the only set failed at its rename: the error is on record,
\* t1 is in the map and nothing is at the store path.
C14_Witness ==
    /\ lastFlushError = "rename failed"
    /\ flushChain = NoFlushes
    /\ TokenStoreHas("t1")
    /\ file = AbsentFile

\* The access and refresh tokens the store is given.
TokenSecrets ==
    {token.accessToken : token \in StoreInputTokens}
        \cup {token.refreshToken : token \in StoreInputTokens}

\* The strings of a persisted payload.
PayloadStrings(text) ==
    UNION { {text[4][i][1], text[4][i][2][1], text[4][i][2][2], text[4][i][2][3]} :
              i \in 1..Len(text[4]) }

\* The strings that can be read off some bytes without a key: those of a
\* payload in the clear, none of a ciphertext or a tag.
BytesClearText(bytes) == IF bytes[1] = "payload" THEN PayloadStrings(bytes) ELSE {}

\* The strings that can be read off a file without a key.
FileClearText(f) ==
    IF f.kind = "absent" \/ f.text[1] # "envelope" THEN {}
    ELSE {f.text[3]} \cup BytesClearText(FromBase64(f.text[5]))
                     \cup BytesClearText(FromBase64(f.text[6]))

\* C15: neither the file at the store path nor the temporary file ever lets
\* an access token or a refresh token be read without the key; a file the
\* store writes is an envelope of version, algorithm, nonce, tag and
\* ciphertext (or the beginning of one).
C15_NoPlaintextTokenOnDisk ==
    /\ TokenSecrets \cap (FileClearText(file) \cup FileClearText(tmpFile)) = {}
    /\ \A f \in {file, tmpFile} : f.kind = "text" =>
         \/ f.text = <<"partial">>
         \/ /\ f.text[1] = "envelope" /\ Len(f.text) = 6
            /\ f.text[2] = 1 /\ f.text[3] = "aes-256-gcm"
            /\ FromBase64(f.text[5])[1] = "gcm-tag"
            /\ FromBase64(f.text[6])[1] = "gcm-ct"

\* The store path and the temporary file both hold complete envelopes, and
\* the one at the store path decrypts to t1's tokens.
C15_Witness ==
    /\ IsFileStore
    /\ file # AbsentFile
    /\ tmpFile.kind = "text" /\ tmpFile.text # <<"partial">>
    /\ MapHas(loadFromDiskIfPresent(file, key).map, "t1")
    /\ MapGet(loadFromDiskIfPresent(file, key).map, "t1").accessToken \in TokenSecrets

ValidKeys == {k \in LoadEnvKeys \ {NoKey, ""} : Base64DecodedLength(k) = KeyBytes}

BadKeys == {k \in LoadEnvKeys \ {NoKey, ""} : Base64DecodedLength(k) # KeyBytes}

\* The envelope text does not read back under `k`: it is not JSON, not of
\* version 1 or of aes-256-gcm, its tag does not verify, or its plaintext is
\* not JSON, not of version 1 or without a number for updatedAt.
FailsValidation(text, k) ==
    LET envelope == ParseEnvelope(text) IN
    \/ ~envelope.json
    \/ envelope.version # 1
    \/ envelope.alg # "aes-256-gcm"
    \/ LET dec == decryptAes256Gcm(k, FromBase64(envelope.iv), FromBase64(envelope.tag),
                                   FromBase64(envelope.data)) IN
       \/ ~dec.ok
       \/ ~ParsePayload(dec.plaintext).json
       \/ ParsePayload(dec.plaintext).version # 1
       \/ ParsePayload(dec.plaintext).updatedAtType # "number"

\* The decrypted payload has no tokens object.
LacksTokens(text, k) ==
    LET envelope == ParseEnvelope(text)
        dec == decryptAes256Gcm(k, FromBase64(envelope.iv), FromBase64(envelope.tag),
                                FromBase64(envelope.data))
    IN  ~FailsValidation(text, k) /\ ~ParsePayload(dec.plaintext).tokensPresent

\* C11 as stated: with a key of 32 bytes, a file that exists, is not of
\* length zero and does not read back (whitespace is not JSON; a payload
\* without tokens is malformed) makes construction fail.
C11_UnreadableFileFailsConstruction ==
    (/\ key \in ValidKeys
     /\ file.kind = "text" /\ file.text[1] # "empty"
     /\ FailsValidation(file.text, key) \/ LacksTokens(file.text, key))
        => ~createTokenStoreFromEnv(key, file).ok

\* C11, amended: with a key of 32 bytes, construction fails exactly when the
\* file has content other than whitespace and its envelope is not JSON, not
\* of version 1 or of aes-256-gcm, does not authenticate under the key, or
\* its plaintext is not JSON, not of version 1 or has no number for
\* updatedAt; a failed construction leaves no store and the file as it was.
C11_RejectedFileFailsConstruction ==
    /\ [](key \in ValidKeys =>
            LET rejected == /\ file.kind = "text"
                            /\ file.text[1] \notin {"empty", "whitespace"}
                            /\ FailsValidation(file.text, key)
                made == createTokenStoreFromEnv(key, file)
            IN  /\ rejected <=> ~made.ok
                /\ rejected =>
                     /\ made.error \in {JsonSyntaxError, EnvelopeFormatError,
                                        AuthenticationError, PayloadError}
                     /\ lastResult = Threw("", made.error)
                     /\ map = <<>> /\ flushChain = NoFlushes /\ tmpFile = AbsentFile)
    /\ [][RestartFails => file' = file /\ map' = <<>> /\ lastResult'.outcome = "threw"]_vars

\* With K1 configured, the file is an envelope whose tag was replaced:
\* construction threw the authentication error and there is no store.
C11_Witness ==
    /\ key = "K1"
    /\ file.kind = "text" /\ ParseEnvelope(file.text).json
    /\ ParseEnvelope(file.text).version = 1 /\ ParseEnvelope(file.text).alg = "aes-256-gcm"
    /\ FromBase64(ParseEnvelope(file.text).data)[2] = "K1"
    /\ lastResult = Threw("", AuthenticationError)
    /\ map = <<>>

\* The plaintexts given to the codec.
CodecPlaintexts == OddPlaintexts \cup {StringifyPayload(PayloadVersion, 0, m) : m \in LoadMaps}

C17_BadKeyFailsBeforeFileIsRead ==
    /\ [](key \in BadKeys =>
            /\ \A f \in DiskFiles :
                 createTokenStoreFromEnv(key, f) = [ok |-> FALSE, error |-> KeyLengthError]
            /\ createTokenStoreFromEnv(key, file) = [ok |-> FALSE, error |-> KeyLengthError]
            /\ lastResult = Threw("", KeyLengthError)
            /\ map = <<>> /\ flushChain = NoFlushes /\ tmpFile = AbsentFile)
    /\ [][(key \in BadKeys) => file' = file]_vars

\* A key of 16 bytes and a file that is not JSON: the key error was thrown.
C17_Witness ==
    /\ key = "K16"
    /\ file = TextFile(<<"garbage">>)
    /\ lastResult = Threw("", KeyLengthError)

\* C18: without a key (unset or empty) construction yields an empty store
\* whatever is at the store path, no flush is ever chained, no file is ever
\* written or changed, and a restart yields an empty map; with a key of 32
\* bytes a set chains a flush and construction is the load of the file.
C18_NoKeyMeansInMemory ==
    /\ [](key \in {NoKey, ""} =>
            /\ createTokenStoreFromEnv(key, file) = [ok |-> TRUE, map |-> <<>>]
            /\ flushChain = NoFlushes /\ tmpFile = AbsentFile /\ lastFlushError = "none")
    /\ [][(key \in {NoKey, ""}) =>
            /\ file' = file /\ tmpFile' = tmpFile
            /\ Restart => map' = <<>>]_vars
    /\ [][\A token \in LoadInputTokens : (key \in ValidKeys /\ storeToken(token)) =>
            flushChain' = Append(flushChain, QueuedFlush)]_vars
    /\ [](key \in ValidKeys =>
            createTokenStoreFromEnv(key, file) = loadFromDiskIfPresent(file, key))

\* Without a key and with a file that is not JSON at the store path, t1 has
\* been set.
C18_Witness ==
    /\ key = NoKey
    /\ file = TextFile(<<"garbage">>)
    /\ TokenStoreHas("t1")

(***************************************************************************)
(* Properties of what is committed at the store path.                      *)
(***************************************************************************)
\* The payload of the envelope at the store path.
CommittedPayload == SnapshotOf(ParseEnvelope(file.text))

\* A step in which the rename of the oldest flush succeeds.
FlushCommits ==
    /\ flushChain # <<>> /\ flushChain[1].stage = "rename"
    /\ \E i \in FlushSlots : FlushRename(i)
    /\ tmpFile' = AbsentFile

\* A step in which a flush fails and records its error.
FlushFailureRecorded ==
    /\ \E i \in FlushSlots : FlushMkdir(i) \/ FlushWrite(i) \/ FlushRename(i)
    /\ Len(flushChain') < Len(flushChain)
    /\ tmpFile' = tmpFile

C22_FailedFlushDoesNotStopTheChain ==
    /\ [][FlushFailureRecorded =>
            /\ flushChain' = Tail(flushChain)
            /\ \A i \in 1..Len(flushChain') : flushChain'[i] = QueuedFlush]_vars
    /\ []((lastFlushError # "none" /\ flushChain # <<>> /\ flushChain[1] = QueuedFlush)
            => ENABLED FlushStart(1))
    /\ [][(lastFlushError # "none" /\ FlushStarts(1)) =>
            SnapshotOf(flushChain'[1].envelope).tokens = map]_vars
    /\ [][(lastFlushError # "none" /\ FlushCommits) =>
            /\ file' = TextFile(StringifyEnvelope(flushChain[1].envelope))
            /\ flushChain' = Tail(flushChain)]_vars

\* An error is on record, nothing was ever committed, and the flush of a
\* later set is about to rename its temporary file, which holds the map.
C22_Witness ==
    /\ lastFlushError # "none"
    /\ file = AbsentFile
    /\ Len(flushChain) = 1 /\ flushChain[1].stage = "rename"
    /\ tmpFile = TextFile(StringifyEnvelope(flushChain[1].envelope))
    /\ SnapshotOf(flushChain[1].envelope).tokens = map
    /\ TokenStoreHas("t1")

\* C23: the flush that starts serialises the whole map and the time of that
\* step; the envelope of a flush under way never changes; the store path
\* changes only to the envelope of the flush whose rename succeeds; so the
\* committed payload is one whole snapshot, and the time of the committed
\* snapshot never decreases nor exceeds that of a flush under way.
C23_CommittedPayloadIsOneWholeSnapshot ==
    /\ [][\A i \in FlushSlots : FlushStarts(i) =>
            SnapshotOf(flushChain'[i].envelope) =
                [json |-> TRUE, version |-> 1, updatedAtType |-> "number",
                 updatedAt |-> now, tokensPresent |-> TRUE, tokens |-> map]]_vars
    /\ [][\A i \in RunningFlushes : Len(flushChain') >= Len(flushChain) =>
            flushChain'[i].envelope = flushChain[i].envelope]_vars
    /\ [][file' # file =>
            /\ FlushCommits
            /\ file' = TextFile(StringifyEnvelope(flushChain[1].envelope))]_vars
    /\ [][(file' # file /\ file # AbsentFile /\ file'.text[1] = "envelope") =>
            CommittedPayload'.updatedAt >= CommittedPayload.updatedAt]_vars
    /\ []((IsFileStore /\ file # AbsentFile) =>
            /\ ParseEnvelope(file.text).json
            /\ CommittedPayload.json /\ CommittedPayload.tokensPresent
            /\ CommittedPayload.updatedAt <= now
            /\ \A i \in RunningFlushes :
                 SnapshotOf(flushChain[i].envelope).updatedAt >= CommittedPayload.updatedAt)

\* A snapshot taken at time 0 is committed, and a flush that snapshotted
\* another map at time 1 is about to rename.
C23_Witness ==
    /\ IsFileStore /\ file # AbsentFile
    /\ CommittedPayload.updatedAt = 0
    /\ Len(flushChain) >= 1 /\ flushChain[1].stage = "rename"
    /\ SnapshotOf(flushChain[1].envelope).updatedAt = 1
    /\ SnapshotOf(flushChain[1].envelope).tokens # CommittedPayload.tokens

\* The entries of a payload under a non-empty tenantId.
NamedEntries(tokens) == SelectSeq(tokens, LAMBDA e : e.key # "")

\* C24 as stated: a store constructed from a committed file holds exactly
\* the entries of the payload.
C24_RestartLoadsTheSnapshot ==
    [][(IsFileStore /\ Restart /\ file # AbsentFile) => map' = CommittedPayload.tokens]_vars

\* C24, amended: a store constructed from a committed file holds exactly the
\* entries of the payload whose tenantId is not the empty string, in the
\* order of the payload, and get returns for each of them the token set of
\* the payload.
C24_RestartLoadsTheNamedEntries ==
    /\ [][(IsFileStore /\ Restart /\ file # AbsentFile) =>
            /\ map' = NamedEntries(CommittedPayload.tokens)
            /\ \A t \in StoreTenantIds \ {""} :
                 MapHas(CommittedPayload.tokens, t) =>
                   TokenStoreGet(t)' = MapGet(CommittedPayload.tokens, t)]_vars
    /\ [](IsFileStore /\ file # AbsentFile =>
            createTokenStoreFromEnv(key, file) =
                [ok |-> TRUE, map |-> NamedEntries(CommittedPayload.tokens)])

\* A store constructed from a payload of two entries holds t1 alone.
C24_Witness ==
    /\ IsFileStore /\ Drained
    /\ file # AbsentFile
    /\ Len(CommittedPayload.tokens) = 2
    /\ MapKeys(map) = <<"t1">>
    /\ TokenStoreGet("t1") = MapGet(CommittedPayload.tokens, "t1")

\* ---------------------------------------------------------------------------
\* Properties of the store under the refresh coordinator and tenant
\* offboarding (specification SpecTenants)
\* ---------------------------------------------------------------------------

\* doRefresh for the promise p settles in this step: successfully, with the
\* refreshed token stored, or with an error.
RefreshSucceeds(p) ==
    refreshes[p].state = "pending" /\ refreshes'[p].state = "doRefreshFulfilled"

RefreshFails(p) ==
    refreshes[p].state = "pending" /\ refreshes'[p].state = "doRefreshRejected"

\* Every tenant other than t has the same token, or the same absence, after
\* the step as before it.
OthersUntouched(t) ==
    \A u \in TenantIds \ {t} :
        /\ TokenStoreGet(u)' = TokenStoreGet(u)
        /\ TokenStoreHas(u)' = TokenStoreHas(u)

\* C25: tenant isolation.  A set, a delete, a successful refresh and a failed
\* refresh for one tenant leave the token and the presence of every other
\* tenant unchanged; a refresh is started for the tenant of the call that
\* starts it, with that tenant's stored refresh token, and its result is
\* stored under that tenant and under no other key.
C25_TenantIsolation ==
    /\ [][\A token \in AuthInputTokens :
            storeToken(token) => OthersUntouched(token.tenantId)]_vars
    /\ [][\A t \in AuthTenantIds : deleteToken(t) => OthersUntouched(t)]_vars
    /\ [][\A p \in PromiseSlots :
            Starts(p) => \E t \in AuthTenantIds :
                            /\ Suspends(p, t)
                            /\ refreshes'[p].tenantId = t
                            /\ refreshes'[p].request.refresh_token = TokenStoreGet(t).refreshToken
                            /\ map' = map]_vars
    /\ [][\A p \in PromiseSlots :
            RefreshSucceeds(p) =>
                LET t == refreshes[p].tenantId
                IN  /\ OthersUntouched(t)
                    /\ refreshes'[p].tenantId = t
                    /\ refreshes'[p].value.tenantId = t
                    /\ TokenStoreGet(t)' = refreshes'[p].value]_vars
    /\ [][\A p \in PromiseSlots : RefreshFails(p) => map' = map]_vars

\* A refresh for t1 has succeeded and replaced t1's token while t2 still holds
\* the token it was given, and a refresh for t2 is pending.
C25_Witness ==
    \E p, q \in PromiseSlots :
        /\ refreshes[p].tenantId = "t1"
        /\ refreshes[p].state = "doRefreshFulfilled"
        /\ TokenStoreGet("t1") = refreshes[p].value
        /\ refreshes[q].tenantId = "t2"
        /\ refreshes[q].state = "pending"
        /\ TokenStoreGet("t2") \in AuthInputTokens

\* A step in which a getValidAccessToken call delivers an access token.
ReturnsToken == lastResult'.outcome = "returned" /\ exchanges' = exchanges

\* The call returned the stored access token without suspending, and the
\* stored token was outside the refresh buffer when it was checked.
ReturnsFreshStoredToken ==
    LET token == TokenStoreGet(lastResult'.tenantId)
    IN  /\ calls' = calls
        /\ token # Undefined
        /\ now < token.expiresAt - REFRESH_TOKEN_BUFFER_MS
        /\ lastResult'.value = token.accessToken

\* The call resumed from the refresh promise p, fulfilled with a token built
\* from a well-formed answer of the token endpoint, and returned that token's
\* access token.
ReturnsRefreshedToken(p, t) ==
    /\ Resumes(p, t)
    /\ refreshes[p].state = "fulfilled"
    /\ refreshes[p].tenantId = t
    /\ lastResult' = Returned(t, refreshes[p].value.accessToken)
    /\ \E res \in Responses \cup TenantsResponses :
          /\ tokenRequest(res).ok
          /\ refreshes[p].value.accessToken = res.body.access_token.str

\* Every returned value is the fresh stored access token or the access token
\* of the fulfilled refresh promise the call awaited; a call that judged the
\* stored token to need refresh returns nothing in that step, awaits a
\* promise that has not settled yet, and throws when that promise is rejected.
ReturnedValuesAreFreshOrRefreshed ==
    /\ [][ReturnsToken =>
            \/ ReturnsFreshStoredToken
            \/ \E p \in PromiseSlots, t \in TenantIds : ReturnsRefreshedToken(p, t)]_vars
    /\ [][\A p \in PromiseSlots, t \in TenantIds :
            Suspends(p, t) =>
                /\ TokenStoreGet(t) # Undefined
                /\ now >= TokenStoreGet(t).expiresAt - REFRESH_TOKEN_BUFFER_MS
                /\ lastResult' = NoResult
                /\ Unsettled(p)']_vars
    /\ [][\A p \in PromiseSlots, t \in TenantIds :
            (Resumes(p, t) /\ refreshes[p].state = "rejected")
                => lastResult' = Threw(t, refreshes[p].error)]_vars

\* C26 as stated: getValidAccessToken never resolves to the access token of
\* a stored TokenSet it judged to need refresh; every returned value is the
\* fresh stored access token or the access token produced by a refresh that
\* completed successfully after the call began.  So the promise a call
\* starts to await never already carries the very token the call has just
\* judged to need refresh.
C26_NeverReturnsTokenJudgedStale ==
    /\ ReturnedValuesAreFreshOrRefreshed
    /\ [][\A p \in PromiseSlots, t \in TenantIds :
            Suspends(p, t) => refreshes'[p].value # TokenStoreGet(t)]_vars

\* C26, amended: every returned value is the fresh stored access token or the
\* access token of the TokenSet with which the refresh promise the call
\* awaited was fulfilled, and that promise settles after the call began.  A
\* call awaits a promise that already carries the stored token only when
\* doRefresh has stored its result and the promise's finally callback has
\* not run yet.
C26_ReturnsFreshOrAwaitedRefresh ==
    /\ ReturnedValuesAreFreshOrRefreshed
    /\ [][\A p \in PromiseSlots, t \in TenantIds :
            (Suspends(p, t) /\ refreshes'[p].value = TokenStoreGet(t))
                => /\ refreshes[p].state = "doRefreshFulfilled"
                   /\ refreshInFlight[t] = p
                   /\ fetchCalls' = fetchCalls]_vars

\* doRefresh has stored a token that is itself within the refresh buffer, its
\* promise has not settled, and as many calls as can be suspended await it.
C26_Witness ==
    \E p \in PromiseSlots :
        LET t == refreshes[p].tenantId
        IN  /\ refreshes[p].state = "doRefreshFulfilled"
            /\ TokenStoreGet(t) = refreshes[p].value
            /\ NeedsRefresh(now, refreshes[p].value)
            /\ refreshInFlight[t] = p
            /\ calls[p][t] = MaxCallers

\* Every entry of the map `m` holds a token whose tenantId is the entry's
\* key, and no key occurs twice.
KeyConsistent(m) ==
    /\ \A i \in 1..Len(m) : m[i].value.tenantId = m[i].key
    /\ \A i, j \in 1..Len(m) : m[i].key = m[j].key => i = j

FollowsRefresh(p, q) ==
    /\ Starts(p)
    /\ refreshes[q].state = "fulfilled"
    /\ refreshes[q].tenantId = refreshes'[p].tenantId
    /\ TokenStoreGet(refreshes[q].tenantId) = refreshes[q].value

\* A refresh request sends the refresh token stored for its tenant when the
\* refresh starts, and the request is not changed afterwards.
SendsStoredRefreshToken ==
    /\ [][\A p \in PromiseSlots :
            Starts(p) => \E t \in AuthTenantIds :
                /\ Suspends(p, t)
                /\ refreshes'[p].request = RefreshRequest(TokenStoreGet(t).refreshToken)]_vars
    /\ [][\A p \in PromiseSlots :
            (refreshes[p].state # "free" /\ refreshes'[p].state # "free")
                => refreshes'[p].request = refreshes[p].request]_vars

\* C28 as stated: each refresh request sends the refresh token in the store
\* when the refresh starts, and once a refresh that sent R has succeeded, no
\* later refresh request for that tenant sends R again unless an explicit
\* set/storeToken wrote R back.
C28_SpentRefreshTokenIsNotSentAgain ==
    /\ SendsStoredRefreshToken
    /\ [][\A p, q \in PromiseSlots :
            FollowsRefresh(p, q)
                => refreshes'[p].request.refresh_token
                       # refreshes[q].request.refresh_token]_vars

\* C28, amended: each refresh request sends the refresh token in the store
\* when the refresh starts; a successful refresh stores the refresh token of
\* the response, so the next refresh request for the tenant sends the refresh
\* token the token endpoint returned, which is the one just used only if the
\* endpoint returned it again.
C28_NextRefreshSendsReturnedToken ==
    /\ SendsStoredRefreshToken
    /\ [][\A p \in PromiseSlots :
            RefreshSucceeds(p) =>
                \E res \in TenantsResponses :
                    /\ tokenRequest(res).ok
                    /\ TokenStoreGet(refreshes[p].tenantId)'.refreshToken
                           = res.body.refresh_token.str]_vars
    /\ [][\A p, q \in PromiseSlots :
            FollowsRefresh(p, q)
                => refreshes'[p].request.refresh_token = refreshes[q].value.refreshToken]_vars

\* A refresh for t1 sent R0 and was fulfilled with the rotated R3; the next
\* refresh for t1 is pending and sent R3.
C28_Witness ==
    \E p, q \in PromiseSlots :
        /\ refreshes[q].state = "fulfilled"
        /\ refreshes[q].tenantId = "t1"
        /\ refreshes[q].request.refresh_token = "R0"
        /\ refreshes[q].value.refreshToken = "R3"
        /\ refreshes[p].state = "pending"
        /\ refreshes[p].tenantId = "t1"
        /\ refreshes[p].request.refresh_token = "R3"

\* C29: offboarding is not undone by a concurrent refresh.  After
\* delete(tenantId), has(tenantId) stays false until the next explicit set,
\* even when a refresh for the tenant was in flight at the time of the delete
\* and later succeeds: the only step that makes has(tenantId) true is a
\* storeToken for that tenant.
C29_DeleteIsNotUndoneByRefresh ==
    [][\A t \in TenantIds :
         (~TokenStoreHas(t) /\ TokenStoreHas(t)')
             => \E token \in AuthInputTokens :
                    token.tenantId = t /\ storeToken(token)]_vars

\* ---------------------------------------------------------------------------
\* Termination of the refresh coordinator (specification SpecLive)
\* ---------------------------------------------------------------------------

\* C30: if every upstream token-endpoint call eventually settles, every
\* pending refresh settles, every getValidAccessToken call that awaits a
\* refresh eventually resolves or rejects, no waiter stays pending after the
\* refresh it awaits has settled (the promise is released once the last of
\* them has resumed), every entry of the in-flight table is eventually
\* removed, and once no more refreshes are started the table stays empty.
C30_CallsSettleAndTableEmpties ==
    /\ \A p \in PromiseSlots :
          /\ (refreshes[p].state = "pending") ~> (refreshes[p].state \in {"fulfilled", "rejected"})
          /\ (refreshes[p].state \in {"fulfilled", "rejected"}) ~> (refreshes[p].state = "free")
          /\ \A t \in AuthTenantIds : (calls[p][t] > 0) ~> (calls[p][t] = 0)
    /\ \A t \in AuthTenantIds : (refreshInFlight[t] # 0) ~> (refreshInFlight[t] = 0)
    /\ <>[](\A t \in TenantIds : refreshInFlight[t] = 0)
    /\ <>[](SuspendedCalls = 0)

\* As many calls as can be suspended await a refresh of t1 that has settled
\* with an error and left the in-flight table, while a refresh of t2 is still
\* pending.
C30_Witness ==
    \E p, q \in PromiseSlots :
        /\ refreshes[p].state = "rejected"
        /\ refreshes[p].tenantId = "t1"
        /\ refreshInFlight["t1"] = 0
        /\ calls[p]["t1"] > 0
        /\ refreshes[q].state = "pending"
        /\ refreshInFlight["t2"] = q
        /\ SuspendedCalls = MaxCallers

====
